---- MODULE Spec2Model ----
(***************************************************************************)
(* tsensor (src/main.rs): a terminal dashboard of hardware sensors.        *)
(*                                                                         *)
(* Four threads are modelled:                                              *)
(*   main    - the Renderer / event loop            (main, draw)           *)
(*   poller  - the thread spawned by App::new       (stream.for_each)      *)
(*   input   - the thread reading stdin.keys()                             *)
(*   tick    - the thread sending Event::Tick every 500 ms                 *)
(* sharing App { size, data } behind one Mutex and one mpsc channel.       *)
(***************************************************************************)
EXTENDS Integers, Sequences, FiniteSets, TLC

(***************************************************************************)
(* Bounds of the model.                                                    *)
(***************************************************************************)
\* Ticks the tick thread sends.
MaxTicks == 2
\* Keys the input thread reads from stdin.
MaxKeys == 2
\* Longest sensor list enumerated for the pure bucketing function.
NumSensors == 2

(***************************************************************************)
(* f64.  The program never orders two f64s: it tests is_nan(), casts with  *)
(* `as u64` and copies.  An f64 is kept as its integer part w and its      *)
(* fraction f in tenths (w.f), the two words a store of it writes.  Only   *)
(* finite values >= 0 within u64 are enumerated.                           *)
(***************************************************************************)
F(w, f) == [nan |-> FALSE, w |-> w, f |-> f]
NaN == [nan |-> TRUE, w |-> 0, f |-> 0]

\* `x as u64` (lines 132, 141): the fraction is dropped; NaN and negative
\* values give 0.
AsU64(x) == IF x.nan \/ x.w < 0 THEN 0 ELSE x.w

\* 1.0_f64, the value every slot starts with (line 36).
Sentinel == F(1, 0)

(***************************************************************************)
(* libpsensor::PsensorType and libpsensor::Psensor.                        *)
(***************************************************************************)
Cpu == <<"Cpu">>
Gpu == <<"Gpu">>
Hdd == <<"Hdd">>
Fan == <<"Fan">>
Other(b) == <<"Other", b>>
PsensorType == {Cpu, Gpu, Hdd, Fan, Other(TRUE), Other(FALSE)}

NameOf(id) == "Core" \o ToString(id - 1)
Psensor(id, type, max) == [id |-> id, name |-> NameOf(id), sensor |-> type, max |-> max]

\* The default ceilings draw passes to filter_sensor.
CpuDefaultMax == 80
GpuDefaultMax == 90
HddDefaultMax == 60
FanDefaultMax == 4000
OtherDefaultMax == 80

(***************************************************************************)
(* Iterator helpers used by filter_sensor.                                 *)
(***************************************************************************)
\* A variant of the fold that keeps the first element.
FirstDeclared(s) == IF s = <<>> THEN <<>> ELSE <<Head(s)>>

\* Iterator::max over u64 (line 142).  Option<u64>: <<>> is None, <<m>> is
\* Some(m).
RECURSIVE IterMax(_)
IterMax(s) ==
    IF s = <<>> THEN <<>>
    ELSE LET rest == IterMax(Tail(s))
         IN  IF rest = <<>> THEN <<Head(s)>>
             ELSE IF rest[1] >= Head(s) THEN rest ELSE <<Head(s)>>

UnwrapOr(opt, default) == IF opt = <<>> THEN default ELSE opt[1]

RECURSIVE FilterMap(_, _)
\* .iter().filter_map(..) of lines 129-136: the entries of the type, each as
\* (sensor.max, (sensor.name, value as u64)), in the order of the slice.
FilterMap(sensors, sensor_type) ==
    IF sensors = <<>> THEN <<>>
    ELSE LET e == Head(sensors)
             rest == FilterMap(Tail(sensors), sensor_type)
         IN  IF e.s.sensor = sensor_type
             THEN <<[max |-> e.s.max, v |-> <<e.s.name, AsU64(e.value)>>]>> \o rest
             ELSE rest

\* A variant that casts every declared max, NaN included (NaN as u64 is 0).
DeclaredMaxesKeepNaN(tmp) == [i \in 1..Len(tmp) |-> AsU64(tmp[i].max)]

RECURSIVE DeclaredMaxes(_)
\* .map(|&(max, _)| max).filter(|max| !max.is_nan()).map(|max| max as u64)
DeclaredMaxes(tmp) ==
    IF tmp = <<>> THEN <<>>
    ELSE LET m == Head(tmp).max
             rest == DeclaredMaxes(Tail(tmp))
         IN  IF ~m.nan THEN <<AsU64(m)>> \o rest ELSE rest

\* A variant of the bucket that lists the entries last first.
ReversedBucket(tmp) == [i \in 1..Len(tmp) |-> tmp[Len(tmp) + 1 - i].v]

\* cpus_max_temp (lines 137-143).
CeilingOf(tmp, default_max) == UnwrapOr(IterMax(DeclaredMaxes(tmp)), default_max)

\* r (line 144).
BucketOf(tmp) == [i \in 1..Len(tmp) |-> tmp[i].v]

\* fn filter_sensor(sensors, sensor_type, default_max) -> (Vec<(&str, u64)>, u64)
filter_sensor(sensors, sensor_type, default_max) ==
    LET tmp == FilterMap(sensors, sensor_type)
    IN  [data |-> BucketOf(tmp), max |-> CeilingOf(tmp, default_max)]

\* The five filter_sensor calls of draw, as the five bar charts in the order
\* CPUs, GPUs, HDDs, Fans, Others.
Charts(d) ==
    << filter_sensor(d, Cpu, CpuDefaultMax),
       filter_sensor(d, Gpu, GpuDefaultMax),
       filter_sensor(d, Hdd, HddDefaultMax),
       filter_sensor(d, Fan, FanDefaultMax),
       filter_sensor(d, Other(TRUE), OtherDefaultMax) >>

(***************************************************************************)
(* Events and terminal sizes.                                              *)
(***************************************************************************)
Tick == <<"Tick">>
Input(k) == <<"Input", k>>
Keys == {"q", "x"}
QuitKey == "q"
NoEvt == <<"None">>

Rect(w, h) == [w |-> w, h |-> h]
RectDefault == Rect(0, 0)
Sizes == {Rect(80, 24), Rect(100, 30)}
NoFrame == [area |-> RectDefault, charts |-> <<>>]

\* A variant of the comparison that never matches.
IsQuitNever(e) == FALSE

\* A variant of the comparison that matches every key.
IsQuitAnyKey(e) == e # Tick

\* `input == event::Key::Char('q')` (line 113).
IsQuit(e) == e = Input(QuitKey)

(***************************************************************************)
(* The sensor lists libpsensor::new can return in the concurrent model,    *)
(* and the ids its stream can name (one more than it discovered).          *)
(***************************************************************************)
CoreSensors == << Psensor(1, Cpu, NaN), Psensor(2, Cpu, F(85, 0)) >>
FanSensors == << Psensor(2, Fan, NaN) >>
SensorLists == {CoreSensors, FanSensors}
StreamIds == 1..3
StreamValues == {F(45, 0), F(70, 5)}

NewData(sensors) == [i \in 1..Len(sensors) |-> [s |-> sensors[i], value |-> Sentinel]]

\* A variant of the scan that stops at the first entry whatever its id.
FindSlotFirst(d, id) == IF d = <<>> THEN 0 ELSE 1

\* A variant of the scan that falls back to the first entry when no id matches.
FindSlotOrFirst(d, id) ==
    IF \E i \in 1..Len(d) : d[i].s.id = id
    THEN CHOOSE i \in 1..Len(d) : d[i].s.id = id
    ELSE IF d = <<>> THEN 0 ELSE 1

\* The loop of lines 47-52: the index of the first entry with the id, 0 if
\* none has it.
FindSlot(d, id) ==
    IF \E i \in 1..Len(d) : d[i].s.id = id
    THEN CHOOSE i \in 1..Len(d) : d[i].s.id = id /\ \A j \in 1..(i - 1) : d[j].s.id # id
    ELSE 0

\* A variant of the channel that hands out the newest message.
ChanRecvNewest(c) == [evt |-> c[Len(c)], rest |-> SubSeq(c, 1, Len(c) - 1)]

\* mpsc::channel (line 72): send appends, recv takes the oldest message.
ChanSend(c, e) == Append(c, e)
ChanRecv(c) == [evt |-> Head(c), rest |-> Tail(c)]

\* The Input and Tick events in a sequence of events.
RECURSIVE Count(_, _)
Count(s, e) == IF s = <<>> THEN 0 ELSE (IF Head(s) = e THEN 1 ELSE 0) + Count(Tail(s), e)
NTicks(s) == Count(s, Tick)
NKeys(s) == Len(s) - Count(s, Tick)

(***************************************************************************)
(* State.                                                                  *)
(***************************************************************************)
VARIABLES
    \* App behind Arc<Mutex<App>>
    data,           \* App.data: sequence of [s: Psensor, value: f64]
    size,           \* App.size
    lock,           \* holder of the Mutex: "free", "main", "poller"
    \* channels
    appChan,        \* the sync_channel(1) of App::new: "empty", "sent", "taken", "closed"
    chan,           \* the mpsc channel of Events
    \* threads
    proc,           \* the process: "running", "exited", "aborted"
    pcMain, mSize, evt, frame,      \* main: position, `size`, `evt`, the frame draw builds
    pcPoller, pEvt,                 \* poller: position, the (sensor, new_value) in hand
    pcInput,                        \* input thread: "read", "done"
    \* environment
    termSize,       \* what terminal.size() returns
    \* history
    enq,            \* every Event sent, in send order
    recvLog,        \* every Event main received, in receive order
    paints,         \* the cause of every t.draw(): NoEvt (first draw) or the Event
    cursorRestores, \* calls of terminal.show_cursor()
    resizeCalls,    \* arguments of terminal.resize() since the last t.draw()
    sizeAtRecv,     \* the terminal size when the Event being handled was received
    lastArea,       \* the area of the last frame painted
    lastDelivered,  \* id of a sensor -> the last value the stream yielded for it
    committed,      \* id -> the last value stored for it
    snapCommitted   \* `committed` at the instant draw read App.data

app == <<data, size>>
mainLocals == <<mSize, evt, frame>>
pollerState == <<pcPoller, pEvt, lastDelivered, committed>>
channel == <<chan, enq>>
termState == <<termSize>>
history == <<recvLog, paints, cursorRestores, resizeCalls, sizeAtRecv, lastArea, snapCommitted>>
vars == <<app, lock, appChan, channel, proc, pcMain, mainLocals, pollerState, pcInput,
          termState, history>>

NoUpdate == [id |-> 0, value |-> NaN]

\* The state at line 94: terminal and channel made, input and tick threads
\* spawned, App::new not yet called.
Init ==
    /\ data = <<>> /\ size = RectDefault /\ lock = "free"
    /\ appChan = "empty" /\ chan = <<>>
    /\ proc = "running"
    /\ pcMain = "new" /\ mSize = RectDefault /\ evt = NoEvt /\ frame = NoFrame
    /\ pcPoller = "start" /\ pEvt = NoUpdate
    /\ pcInput = "read"
    /\ termSize = Rect(80, 24)
    /\ enq = <<>> /\ recvLog = <<>> /\ paints = <<>> /\ cursorRestores = 0
    /\ resizeCalls = <<>> /\ sizeAtRecv = RectDefault /\ lastArea = RectDefault
    /\ lastDelivered = [id \in StreamIds |-> Sentinel]
    /\ committed = [id \in StreamIds |-> Sentinel]
    /\ snapCommitted = [id \in StreamIds |-> Sentinel]

(***************************************************************************)
(* The poller thread (App::new, lines 31-56).                              *)
(***************************************************************************)
\* Lines 32-44: the reactor and the sensors are obtained, App is built with
\* every value 1.0 and a default size, and its handle is sent to main.
PollerStart ==
    /\ proc = "running" /\ pcPoller = "start"
    /\ \E sensors \in SensorLists : data' = NewData(sensors)
    /\ size' = RectDefault
    /\ appChan' = "sent"
    /\ pcPoller' = "wait"
    /\ UNCHANGED <<lock, channel, proc, pcMain, mainLocals, pEvt,
                   lastDelivered, committed, pcInput, termState, history>>

\* Line 32: Core::new().unwrap() panics; the thread ends and tx is dropped.
PollerStartFail ==
    /\ proc = "running" /\ pcPoller = "start"
    /\ appChan' = "closed"
    /\ pcPoller' = "panicked"
    /\ UNCHANGED <<app, lock, channel, proc, pcMain, mainLocals, pEvt,
                   lastDelivered, committed, pcInput, termState, history>>

\* Line 45: the stream yields the next (sensor, new_value).
PollerEvent ==
    /\ proc = "running" /\ pcPoller = "wait"
    /\ \E id \in StreamIds, v \in StreamValues :
          /\ pEvt' = [id |-> id, value |-> v]
          /\ lastDelivered' = IF FindSlot(data, id) # 0
                               THEN [lastDelivered EXCEPT ![id] = v]
                               ELSE lastDelivered
    /\ pcPoller' = "lock"
    /\ UNCHANGED <<app, lock, appChan, channel, proc, pcMain, mainLocals, committed,
                   pcInput, termState, history>>

\* Line 46: app.lock().unwrap() blocks until the Mutex is free.
PollerLock ==
    /\ proc = "running" /\ pcPoller = "lock"
    /\ lock = "free"
    /\ lock' = "poller"
    /\ pcPoller' = "scan"
    /\ UNCHANGED <<app, appChan, channel, proc, pcMain, mainLocals, pEvt,
                   lastDelivered, committed, pcInput, termState, history>>

\* A variant of the scan whose guard outlives the closure when no id matches.
PollerScanHoldGuard ==
    /\ proc = "running" /\ pcPoller = "scan"
    /\ LET i == FindSlot(data, pEvt.id)
       IN  IF i = 0
           THEN /\ data' = data
                /\ lock' = lock
                /\ pEvt' = NoUpdate
                /\ pcPoller' = "wait"
           ELSE /\ data' = [data EXCEPT ![i].value.w = pEvt.value.w]
                /\ lock' = lock
                /\ pEvt' = pEvt
                /\ pcPoller' = "store"
    /\ UNCHANGED <<size, appChan, channel, proc, pcMain, mainLocals,
                   lastDelivered, committed, pcInput, termState, history>>

\* Lines 47-54: the scan for the id.  On a match the store `*value = new_value`
\* begins (its first word).  Without one the loop ends, nothing is stored,
\* Ok(()) is returned and the guard dropped.
PollerScan ==
    /\ proc = "running" /\ pcPoller = "scan"
    /\ LET i == FindSlot(data, pEvt.id)
       IN  IF i = 0
           THEN /\ data' = data
                /\ lock' = "free"
                /\ pEvt' = NoUpdate
                /\ pcPoller' = "wait"
           ELSE /\ data' = [data EXCEPT ![i].value.w = pEvt.value.w]
                /\ lock' = lock
                /\ pEvt' = pEvt
                /\ pcPoller' = "store"
    /\ UNCHANGED <<size, appChan, channel, proc, pcMain, mainLocals,
                   lastDelivered, committed, pcInput, termState, history>>

\* A variant of the store that also has a frame painted for the new value.
PollerStoreRedraw ==
    /\ proc = "running" /\ pcPoller = "store"
    /\ LET i == FindSlot(data, pEvt.id)
       IN  data' = [data EXCEPT ![i].value = pEvt.value]
    /\ committed' = [committed EXCEPT ![pEvt.id] = pEvt.value]
    /\ lock' = "free"
    /\ pEvt' = NoUpdate
    /\ pcPoller' = "wait"
    /\ paints' = Append(paints, NoEvt)
    /\ UNCHANGED <<size, appChan, channel, proc, pcMain, mainLocals,
                   lastDelivered, pcInput, termState, recvLog, cursorRestores,
                   resizeCalls, sizeAtRecv, lastArea, snapCommitted>>

\* A variant of the store that writes the new value into every entry.
PollerStoreAll ==
    /\ proc = "running" /\ pcPoller = "store"
    /\ data' = [i \in 1..Len(data) |-> [data[i] EXCEPT !.value = pEvt.value]]
    /\ committed' = [committed EXCEPT ![pEvt.id] = pEvt.value]
    /\ lock' = "free"
    /\ pEvt' = NoUpdate
    /\ pcPoller' = "wait"
    /\ UNCHANGED <<size, appChan, channel, proc, pcMain, mainLocals,
                   lastDelivered, pcInput, termState, history>>

\* A variant of the store whose guard is never dropped.
PollerStoreHoldGuard ==
    /\ proc = "running" /\ pcPoller = "store"
    /\ LET i == FindSlot(data, pEvt.id)
       IN  data' = [data EXCEPT ![i].value = pEvt.value]
    /\ committed' = [committed EXCEPT ![pEvt.id] = pEvt.value]
    /\ lock' = lock
    /\ pEvt' = NoUpdate
    /\ pcPoller' = "wait"
    /\ UNCHANGED <<size, appChan, channel, proc, pcMain, mainLocals,
                   lastDelivered, pcInput, termState, history>>

\* Lines 49-54: the store completes (its second word); then `break`, Ok(()) is
\* returned and the guard dropped.
PollerStore ==
    /\ proc = "running" /\ pcPoller = "store"
    /\ LET i == FindSlot(data, pEvt.id)
       IN  data' = [data EXCEPT ![i].value = pEvt.value]
    /\ committed' = [committed EXCEPT ![pEvt.id] = pEvt.value]
    /\ lock' = "free"
    /\ pEvt' = NoUpdate
    /\ pcPoller' = "wait"
    /\ UNCHANGED <<size, appChan, channel, proc, pcMain, mainLocals,
                   lastDelivered, pcInput, termState, history>>

(***************************************************************************)
(* The input thread (lines 77-86) and the tick thread (lines 89-92).       *)
(***************************************************************************)
\* A variant of the input loop without the break.
InputKeyNoBreak ==
    /\ proc = "running" /\ pcInput = "read"
    /\ NKeys(enq) < MaxKeys
    /\ \E k \in Keys :
          /\ chan' = ChanSend(chan, Input(k))
          /\ enq' = Append(enq, Input(k))
          /\ pcInput' = "read"
    /\ UNCHANGED <<app, lock, appChan, proc, pcMain, mainLocals, pollerState,
                   termState, history>>

\* Lines 79-84: a key is read and sent; after 'q' the loop breaks.
InputKey ==
    /\ proc = "running" /\ pcInput = "read"
    /\ NKeys(enq) < MaxKeys
    /\ \E k \in Keys :
          /\ chan' = ChanSend(chan, Input(k))
          /\ enq' = Append(enq, Input(k))
          /\ pcInput' = IF k = QuitKey THEN "done" ELSE "read"
    /\ UNCHANGED <<app, lock, appChan, proc, pcMain, mainLocals, pollerState,
                   termState, history>>

\* Lines 90-91: a Tick is sent, then the thread sleeps 500 ms.
TickSend ==
    /\ proc = "running"
    /\ NTicks(enq) < MaxTicks
    /\ chan' = ChanSend(chan, Tick)
    /\ enq' = Append(enq, Tick)
    /\ UNCHANGED <<app, lock, appChan, proc, pcMain, mainLocals, pollerState, pcInput,
                   termState, history>>

(***************************************************************************)
(* The terminal emulator.                                                  *)
(***************************************************************************)
TermResize ==
    /\ proc = "running"
    /\ \E s \in Sizes \ {termSize} : termSize' = s
    /\ UNCHANGED <<app, lock, appChan, channel, proc, pcMain, mainLocals, pollerState,
                   pcInput, history>>

(***************************************************************************)
(* The main thread: App::new, the first draw, the event loop, draw.        *)
(***************************************************************************)
\* Line 57 (called at line 95): rx.recv() returns the handle the poller sent.
MainNew ==
    /\ proc = "running" /\ pcMain = "new"
    /\ appChan = "sent"
    /\ appChan' = "taken"
    /\ pcMain' = "clear"
    /\ UNCHANGED <<app, lock, channel, proc, mainLocals, pollerState, pcInput,
                   termState, history>>

\* A variant of the failed recv() that goes on to the first draw.
MainNewFailProceeds ==
    /\ proc = "running" /\ pcMain = "new"
    /\ appChan = "closed"
    /\ pcMain' = "clear"
    /\ UNCHANGED <<app, lock, appChan, channel, proc, mainLocals, pollerState, pcInput,
                   termState, history>>

\* Line 57: the poller died before sending; recv() is Err and unwrap() panics
\* in the main thread, which ends the process.
MainNewFail ==
    /\ proc = "running" /\ pcMain = "new"
    /\ appChan = "closed"
    /\ proc' = "aborted"
    /\ UNCHANGED <<app, lock, appChan, channel, pcMain, mainLocals, pollerState, pcInput,
                   termState, history>>

\* Line 98: terminal.clear().
Clear ==
    /\ proc = "running" /\ pcMain = "clear"
    /\ pcMain' = "hide_cursor"
    /\ UNCHANGED <<app, lock, appChan, channel, proc, mainLocals, pollerState, pcInput,
                   termState, history>>

\* Line 99: terminal.hide_cursor().
HideCursor ==
    /\ proc = "running" /\ pcMain = "hide_cursor"
    /\ pcMain' = "size0"
    /\ UNCHANGED <<app, lock, appChan, channel, proc, mainLocals, pollerState, pcInput,
                   termState, history>>

\* Line 100: app.lock().unwrap().size = terminal.size().unwrap(); the guard is
\* a temporary of the statement.
Size0 ==
    /\ proc = "running" /\ pcMain = "size0"
    /\ lock = "free"
    /\ size' = termSize
    /\ pcMain' = "draw"
    /\ UNCHANGED <<data, lock, appChan, channel, proc, mainLocals, pollerState, pcInput,
                   termState, history>>

\* A variant of draw that reads App without taking the Mutex.
DrawNoWait ==
    /\ proc = "running" /\ pcMain = "draw"
    /\ lock' = lock
    /\ frame' = [area |-> size, charts |-> Charts(data)]
    /\ snapCommitted' = committed
    /\ pcMain' = "draw_paint"
    /\ UNCHANGED <<app, appChan, channel, proc, mSize, evt, pollerState, pcInput,
                   termState, recvLog, paints, cursorRestores, resizeCalls, sizeAtRecv, lastArea>>

\* Lines 149-210: let app = app.lock().unwrap(), a guard that lives to the end
\* of draw; the five buckets are filtered out of app.data and the two rows
\* are laid out in app.size and rendered into the terminal's buffer.
Draw ==
    /\ proc = "running" /\ pcMain = "draw"
    /\ lock = "free"
    /\ lock' = "main"
    /\ frame' = [area |-> size, charts |-> Charts(data)]
    /\ snapCommitted' = committed
    /\ pcMain' = "draw_paint"
    /\ UNCHANGED <<app, appChan, channel, proc, mSize, evt, pollerState, pcInput,
                   termState, recvLog, paints, cursorRestores, resizeCalls, sizeAtRecv, lastArea>>

\* Lines 212-213: t.draw() paints the frame; draw returns and the guard drops.
DrawPaint ==
    /\ proc = "running" /\ pcMain = "draw_paint"
    /\ paints' = Append(paints, evt)
    /\ resizeCalls' = <<>>
    /\ lastArea' = frame.area
    /\ sizeAtRecv' = RectDefault
    /\ snapCommitted' = [id \in StreamIds |-> Sentinel]
    /\ frame' = NoFrame
    /\ lock' = "free"
    /\ pcMain' = "size_query"
    /\ UNCHANGED <<app, appChan, channel, proc, mSize, evt, pollerState, pcInput,
                   termState, recvLog, cursorRestores>>

\* Line 104: let size = terminal.size().unwrap().
SizeQuery ==
    /\ proc = "running" /\ pcMain = "size_query"
    /\ mSize' = termSize
    /\ pcMain' = "size_cmp"
    /\ UNCHANGED <<app, lock, appChan, channel, proc, evt, frame, pollerState, pcInput,
                   termState, history>>

\* A variant of the comparison whose guard lives on into the body of the if.
SizeCmpHoldGuard ==
    /\ proc = "running" /\ pcMain = "size_cmp"
    /\ lock = "free"
    /\ lock' = IF size # mSize THEN "main" ELSE "free"
    /\ pcMain' = IF size # mSize THEN "resize" ELSE "recv"
    /\ UNCHANGED <<app, appChan, channel, proc, mainLocals, pollerState, pcInput,
                   termState, history>>

\* Line 105: if app.lock().unwrap().size != size; the guard is a temporary of
\* the condition.
SizeCmp ==
    /\ proc = "running" /\ pcMain = "size_cmp"
    /\ lock = "free"
    /\ pcMain' = IF size # mSize THEN "resize" ELSE "recv"
    /\ UNCHANGED <<app, lock, appChan, channel, proc, mainLocals, pollerState, pcInput,
                   termState, history>>

\* Line 106: terminal.resize(size).
Resize ==
    /\ proc = "running" /\ pcMain = "resize"
    /\ resizeCalls' = Append(resizeCalls, mSize)
    /\ pcMain' = "size_store"
    /\ UNCHANGED <<app, lock, appChan, channel, proc, mainLocals, pollerState, pcInput,
                   termState, recvLog, paints, cursorRestores, sizeAtRecv, lastArea, snapCommitted>>

\* Line 107: app.lock().unwrap().size = size.
SizeStore ==
    /\ proc = "running" /\ pcMain = "size_store"
    /\ lock = "free"
    /\ size' = mSize
    /\ pcMain' = "recv"
    /\ UNCHANGED <<data, lock, appChan, channel, proc, mainLocals, pollerState, pcInput,
                   termState, history>>

\* Lines 110-118: rx.recv() blocks for the next Event; Input('q') breaks out of
\* the loop, every other Event goes on to draw (line 119).
Recv ==
    /\ proc = "running" /\ pcMain = "recv"
    /\ chan # <<>>
    /\ LET m == ChanRecv(chan)
       IN  /\ evt' = m.evt
           /\ chan' = m.rest
           /\ recvLog' = Append(recvLog, m.evt)
           /\ pcMain' = IF IsQuit(m.evt) THEN "show_cursor" ELSE "draw"
    /\ sizeAtRecv' = termSize
    /\ UNCHANGED <<app, lock, appChan, enq, proc, mSize, frame, pollerState, pcInput,
                   termState, paints, cursorRestores, resizeCalls, lastArea, snapCommitted>>

\* Line 122: terminal.show_cursor(); main returns and the process exits.
ShowCursor ==
    /\ proc = "running" /\ pcMain = "show_cursor"
    /\ cursorRestores' = cursorRestores + 1
    /\ pcMain' = "done"
    /\ proc' = "exited"
    /\ UNCHANGED <<app, lock, appChan, channel, mainLocals, pollerState, pcInput,
                   termState, recvLog, paints, resizeCalls, sizeAtRecv, lastArea, snapCommitted>>

\* The positions of main at a terminal call whose Result is unwrapped
\* (lines 98, 99, 100, 104, 106, 122, 212).
TerminalCalls ==
    {"clear", "hide_cursor", "size0", "size_query", "resize", "show_cursor", "draw_paint"}

\* The call returns Err: unwrap() panics in the main thread and the process
\* ends where it is.
TerminalFail ==
    /\ proc = "running" /\ pcMain \in TerminalCalls
    /\ proc' = "aborted"
    /\ UNCHANGED <<app, lock, appChan, channel, pcMain, mainLocals, pollerState, pcInput,
                   termState, history>>

\* Running until Input('q') is matched at line 113; Terminating from the
\* break on.
RendererState == IF pcMain \in {"show_cursor", "done"} THEN "Terminating" ELSE "Running"

(***************************************************************************)
(* The program.                                                            *)
(***************************************************************************)
Next ==
    \/ PollerStart \/ PollerStartFail \/ PollerEvent \/ PollerLock \/ PollerScan
    \/ PollerStore
    \/ InputKey \/ TickSend \/ TermResize
    \/ MainNew \/ MainNewFail \/ Clear \/ HideCursor \/ Size0
    \/ Draw \/ DrawPaint
    \/ SizeQuery \/ SizeCmp \/ Resize \/ SizeStore \/ Recv \/ ShowCursor

Spec == Init /\ [][Next]_vars

(***************************************************************************)
(* The error paths after startup: SpecFail adds them to the program.       *)
(***************************************************************************)
\* Line 80: stdin.keys() yields Err; c.unwrap() panics in the input thread,
\* which ends that thread and no other.
InputFail ==
    /\ proc = "running" /\ pcInput = "read"
    /\ pcInput' = "panicked"
    /\ UNCHANGED <<app, lock, appChan, channel, proc, pcMain, mainLocals, pollerState,
                   termState, history>>

\* Line 55: the stream ends with an error instead of the next item; lp.run
\* returns Err and unwrap() panics in the poller thread, outside the closure
\* and its guard, which ends that thread and no other.
PollerFail ==
    /\ proc = "running" /\ pcPoller = "wait"
    /\ pcPoller' = "panicked"
    /\ UNCHANGED <<app, lock, appChan, channel, proc, pcMain, mainLocals, pEvt,
                   lastDelivered, committed, pcInput, termState, history>>

NextFail == Next \/ TerminalFail \/ InputFail \/ PollerFail

SpecFail == Init /\ [][NextFail]_vars

(***************************************************************************)
(* draw as a function of the table: every sensor list of up to NumSensors  *)
(* sensors, every type, declared max and current value, drawn once.        *)
(***************************************************************************)
DrawMaxes == {NaN, F(85, 0), F(90, 5)}
DrawValues == {F(45, 0), F(70, 5)}

\* The table of n sensors with ids 1..n described by c: i -> <<type, max, value>>.
DrawInput(n, c) == [i \in 1..n |-> [s |-> Psensor(i, c[i][1], c[i][2]), value |-> c[i][3]]]

\* The state at line 101, the table holding the values the stream delivered.
InitDraw ==
    /\ \E n \in 0..NumSensors :
          \E c \in [1..n -> PsensorType \X DrawMaxes \X DrawValues] : data = DrawInput(n, c)
    /\ size = Rect(80, 24) /\ lock = "free"
    /\ appChan = "taken" /\ chan = <<>>
    /\ proc = "running"
    /\ pcMain = "draw" /\ mSize = RectDefault /\ evt = NoEvt /\ frame = NoFrame
    /\ pcPoller = "wait" /\ pEvt = NoUpdate
    /\ pcInput = "read"
    /\ termSize = Rect(80, 24)
    /\ enq = <<>> /\ recvLog = <<>> /\ paints = <<>> /\ cursorRestores = 0
    /\ resizeCalls = <<>> /\ sizeAtRecv = RectDefault /\ lastArea = RectDefault
    /\ lastDelivered = [id \in StreamIds |-> IF id <= Len(data) THEN data[id].value ELSE Sentinel]
    /\ committed = lastDelivered
    /\ snapCommitted = [id \in StreamIds |-> Sentinel]

NextDraw == Draw \/ DrawPaint

SpecDraw == InitDraw /\ [][NextDraw]_vars

(***************************************************************************)
(* draw statement by statement, beside the poller: the first draw and the  *)
(* draws for Ticks, each filter_sensor call a step of its own.             *)
(***************************************************************************)
\* The arguments of the five filter_sensor calls (lines 150-154).
ChartArgs ==
    << <<Cpu, CpuDefaultMax>>, <<Gpu, GpuDefaultMax>>, <<Hdd, HddDefaultMax>>,
       <<Fan, FanDefaultMax>>, <<Other(TRUE), OtherDefaultMax>> >>

\* A CPU sensor and a fan, shown in two different charts.
MixedSensors == << Psensor(1, Cpu, F(85, 0)), Psensor(2, Fan, NaN) >>

\* A variant of the first statement of draw that reads App without the Mutex.
DrawLockNoWait ==
    /\ proc = "running" /\ pcMain = "draw"
    /\ lock' = lock
    /\ snapCommitted' = committed
    /\ pcMain' = "draw_filter"
    /\ UNCHANGED <<app, appChan, channel, proc, mainLocals, pollerState, pcInput,
                   termState, recvLog, paints, cursorRestores, resizeCalls, sizeAtRecv, lastArea>>

\* Line 149: let app = app.lock().unwrap().
DrawLock ==
    /\ proc = "running" /\ pcMain = "draw"
    /\ lock = "free"
    /\ lock' = "main"
    /\ snapCommitted' = committed
    /\ pcMain' = "draw_filter"
    /\ UNCHANGED <<app, appChan, channel, proc, mainLocals, pollerState, pcInput,
                   termState, recvLog, paints, cursorRestores, resizeCalls, sizeAtRecv, lastArea>>

\* Lines 150-154: the next of the five filter_sensor(&app.data, ..) calls.
DrawFilter ==
    /\ proc = "running" /\ pcMain = "draw_filter"
    /\ LET k == Len(frame.charts) + 1
       IN  /\ frame' = [frame EXCEPT !.charts =
                            Append(@, filter_sensor(data, ChartArgs[k][1], ChartArgs[k][2]))]
           /\ pcMain' = IF k = Len(ChartArgs) THEN "draw_layout" ELSE "draw_filter"
    /\ UNCHANGED <<app, lock, appChan, channel, proc, mSize, evt, pollerState, pcInput,
                   termState, history>>

\* Lines 155-210: the layout in app.size and the render of the five charts.
DrawLayout ==
    /\ proc = "running" /\ pcMain = "draw_layout"
    /\ frame' = [frame EXCEPT !.area = size]
    /\ pcMain' = "draw_paint"
    /\ UNCHANGED <<app, lock, appChan, channel, proc, mSize, evt, pollerState, pcInput,
                   termState, history>>

\* The state at line 101: App handed over, its size stored, no update yet.
InitSnap ==
    /\ \E sensors \in {CoreSensors, MixedSensors} : data = NewData(sensors)
    /\ size = Rect(80, 24) /\ lock = "free"
    /\ appChan = "taken" /\ chan = <<>>
    /\ proc = "running"
    /\ pcMain = "draw" /\ mSize = RectDefault /\ evt = NoEvt /\ frame = NoFrame
    /\ pcPoller = "wait" /\ pEvt = NoUpdate
    /\ pcInput = "read"
    /\ termSize = Rect(80, 24)
    /\ enq = <<>> /\ recvLog = <<>> /\ paints = <<>> /\ cursorRestores = 0
    /\ resizeCalls = <<>> /\ sizeAtRecv = RectDefault /\ lastArea = RectDefault
    /\ lastDelivered = [id \in StreamIds |-> Sentinel]
    /\ committed = [id \in StreamIds |-> Sentinel]
    /\ snapCommitted = [id \in StreamIds |-> Sentinel]

NextSnap ==
    \/ PollerEvent \/ PollerLock \/ PollerScan \/ PollerStore
    \/ TickSend \/ TermResize
    \/ DrawLock \/ DrawFilter \/ DrawLayout \/ DrawPaint
    \/ SizeQuery \/ SizeCmp \/ Resize \/ SizeStore \/ Recv

SpecSnap == InitSnap /\ [][NextSnap]_vars

(***************************************************************************)
(* The program without failures, under fair scheduling.  A thread that can *)
(* run does run: main takes each step it can take, and a lock() it waits   *)
(* in returns if the Mutex is free again and again (the poller holds it    *)
(* for one store and then waits for the next stream item); the poller      *)
(* finishes its startup and each update it has begun.  Nothing is assumed  *)
(* of the stream, the keyboard, the tick thread or the terminal.           *)
(***************************************************************************)
MainStep ==
    \/ MainNew \/ Clear \/ HideCursor \/ Size0 \/ Draw \/ DrawPaint
    \/ SizeQuery \/ SizeCmp \/ Resize \/ SizeStore \/ Recv \/ ShowCursor

NextLive ==
    \/ PollerStart \/ PollerEvent \/ PollerLock \/ PollerScan \/ PollerStore
    \/ InputKey \/ TickSend \/ TermResize
    \/ MainStep

Fairness ==
    /\ SF_vars(MainStep)
    /\ WF_vars(PollerStart) /\ WF_vars(PollerScan) /\ WF_vars(PollerStore)

SpecLive == Init /\ [][NextLive]_vars /\ Fairness

(***************************************************************************)
(* What the properties below speak about, stated without the program's     *)
(* own helpers.                                                            *)
(***************************************************************************)
Quit == <<"Input", "q">>
Last(q) == q[Len(q)]
Front(q) == SubSeq(q, 1, Len(q) - 1)

\* The integer part of a finite f64 >= 0, and f64 order and u64 -> f64.
IntegerPart(x) == x.w
FLeq(a, b) == a.w < b.w \/ (a.w = b.w /\ a.f <= b.f)
ToF64(n) == [nan |-> FALSE, w |-> n, f |-> 0]

\* The categories in chart order, and the slots of a table d in category c.
Category == <<<<"Cpu">>, <<"Gpu">>, <<"Hdd">>, <<"Fan">>, <<"Other", TRUE>>>>
Members(d, c) == {i \in 1..Len(d) : d[i].s.sensor = Category[c]}
NumericMembers(d, c) == {i \in Members(d, c) : ~d[i].s.max.nan}
Rank(d, c, i) == Cardinality({j \in Members(d, c) : j <= i})
Unmatched(d, id) == \A i \in 1..Len(d) : d[i].s.id # id
Painting == pcMain = "draw_paint"

(***************************************************************************)
(* C1                                                                      *)
(***************************************************************************)
\* Whenever the poller is between two updates, every entry holds the value
\* the stream delivered last for its id (1.0 if none yet).
C1_Latest ==
    pcPoller = "wait" =>
        \A i \in 1..Len(data) : data[i].value = lastDelivered[data[i].s.id]

\* A step changes the value of an entry only while the poller applies an
\* update with that entry's id, and only towards the delivered value.
C1_OnlyMatching ==
    \A i \in (1..Len(data)) \cap (1..Len(data')) :
        data'[i].value # data[i].value =>
            /\ pcPoller \in {"scan", "store"}
            /\ data[i].s.id = pEvt.id
            /\ data'[i].value.w = pEvt.value.w

\* C1: after each (id, value) update the entry with that id holds exactly the
\* most recently delivered value for the id, and no other entry is changed
\* by the update.
C1_UpdateApplied == []C1_Latest /\ [][C1_OnlyMatching]_vars

\* Both slots of the two-sensor table overwritten by two updates.
C1_Witness ==
    /\ pcPoller = "wait" /\ Len(data) = 2
    /\ data[1].value = F(45, 0) /\ data[2].value = F(70, 5)

(***************************************************************************)
(* C2                                                                      *)
(***************************************************************************)
\* C2: the step that ends the scan for an id no entry has changes no value,
\* not the length of the table and not the stored geometry, and leaves the
\* poller waiting for the next event of a process still running.
C2_UnmatchedDropped ==
    [][ (pcPoller = "scan" /\ Unmatched(data, pEvt.id) /\ pcPoller' # "scan") =>
            (data' = data /\ size' = size /\ pcPoller' = "wait" /\ proc' = "running") ]_vars

\* The poller holds an event for an id no entry has, the table already
\* carrying a delivered value.
C2_Witness ==
    /\ pcPoller = "scan" /\ Unmatched(data, pEvt.id)
    /\ \E i \in 1..Len(data) : data[i].value # Sentinel

(***************************************************************************)
(* C3                                                                      *)
(***************************************************************************)
\* The events whose handling by the loop is over: all received ones but the
\* one still being drawn and the quit.
Handled ==
    IF recvLog # <<>> /\ pcMain \in {"draw", "draw_paint", "show_cursor", "done"}
    THEN Front(recvLog) ELSE recvLog

\* The causes of the paints after the first draw.
Redraws == IF paints = <<>> THEN <<>> ELSE Tail(paints)

\* C3: the events received, followed by those still queued, are the events
\* sent in send order; each handled event led to exactly one paint, the k-th
\* paint of the loop being for the k-th event sent; none of them is the quit.
C3_FifoOneRedrawEach ==
    /\ recvLog \o chan = enq
    /\ Redraws = Handled
    /\ \A k \in 1..Len(Redraws) : Redraws[k] = enq[k] /\ Redraws[k] # Quit
    /\ paints # <<>> => paints[1] = NoEvt

\* Tick, Input(x), Tick handled in that order.
C3_Witness == paints = <<NoEvt, Tick, Input("x"), Tick>>

(***************************************************************************)
(* C4                                                                      *)
(***************************************************************************)
\* C4: once Input('q') is the last event received the renderer is
\* Terminating; show_cursor is called at most once, never before the quit was
\* received, and exactly once by the time main returns.
C4_QuitRestoresOnce ==
    /\ (recvLog # <<>> /\ Last(recvLog) = Quit) => RendererState = "Terminating"
    /\ RendererState = "Terminating" => (recvLog # <<>> /\ Last(recvLog) = Quit)
    /\ cursorRestores <= 1
    /\ cursorRestores = 1 <=> pcMain = "done"
    /\ cursorRestores = 1 => \E k \in 1..Len(recvLog) : recvLog[k] = Quit

\* The cursor restored after three other events were handled.
C4_Witness == cursorRestores = 1 /\ Len(recvLog) = 4 /\ Len(paints) = 4

(***************************************************************************)
(* C5                                                                      *)
(***************************************************************************)
\* C5: the frame painted for an event is laid out in the size the terminal
\* had when the event was received, and if that size differs from the area
\* of the frame before, exactly one resize with it was called since.
C5_NoStaleFrame ==
    (Painting /\ evt # NoEvt) =>
        /\ frame.area = sizeAtRecv
        /\ sizeAtRecv # lastArea => resizeCalls = <<sizeAtRecv>>

(***************************************************************************)
(* C6                                                                      *)
(***************************************************************************)
\* C6 as stated: with a numeric declared max in the category, the ceiling
\* equals the greatest declared numeric max.
C6_CeilingIsDeclaredMax ==
    Painting =>
        \A c \in 1..5 :
            NumericMembers(data, c) # {} =>
                \E i \in NumericMembers(data, c) :
                    /\ ToF64(frame.charts[c].max) = data[i].s.max
                    /\ \A j \in NumericMembers(data, c) : FLeq(data[j].s.max, data[i].s.max)

\* C6 amended: with a numeric declared max in the category, the ceiling
\* equals the greatest integer part of the declared numeric maxima, whatever
\* the order of the entries and their current values.
C6_CeilingIsTruncatedMax ==
    Painting =>
        \A c \in 1..5 :
            NumericMembers(data, c) # {} =>
                /\ \E i \in NumericMembers(data, c) :
                      frame.charts[c].max = IntegerPart(data[i].s.max)
                /\ \A j \in NumericMembers(data, c) :
                      IntegerPart(data[j].s.max) <= frame.charts[c].max

\* A CPU chart of two sensors declaring 85 and then 90.5, scaled to 90.
C6_Witness ==
    /\ Painting /\ Len(data) = 2
    /\ data[1].s.sensor = <<"Cpu">> /\ data[1].s.max = F(85, 0)
    /\ data[2].s.sensor = <<"Cpu">> /\ data[2].s.max = F(90, 5)
    /\ frame.charts[1].max = 90

(***************************************************************************)
(* C7                                                                      *)
(***************************************************************************)
\* C7: a category without a member declaring a numeric max gets its fixed
\* default, CPU 80, GPU 90, HDD 60, Fan 4000, Other 80; a category with one
\* gets the integer part of a declared max instead.
C7_DefaultCeiling ==
    Painting =>
        \A c \in 1..5 :
            /\ NumericMembers(data, c) = {} =>
                  frame.charts[c].max = <<80, 90, 60, 4000, 80>>[c]
            /\ NumericMembers(data, c) # {} =>
                  \E i \in NumericMembers(data, c) :
                      frame.charts[c].max = IntegerPart(data[i].s.max)

\* Two fans, neither declaring a max: the Fan chart is scaled to 4000.
C7_Witness ==
    /\ Painting /\ Len(data) = 2
    /\ \A i \in 1..2 : data[i].s.sensor = <<"Fan">> /\ data[i].s.max.nan
    /\ frame.charts[4].max = 4000

(***************************************************************************)
(* C8                                                                      *)
(***************************************************************************)
\* The charts whose bucket shows slot i.
ChartsOf(i) == {c \in 1..5 : i \in Members(data, c)}

\* C8 as stated: every bucket is the (name, current value) pairs of its
\* category in table order, and every entry is in exactly one bucket.
C8_BucketsPartition ==
    Painting =>
        /\ \A c \in 1..5 :
              /\ Len(frame.charts[c].data) = Cardinality(Members(data, c))
              /\ \A i \in Members(data, c) :
                    /\ frame.charts[c].data[Rank(data, c, i)][1] = data[i].s.name
                    /\ ToF64(frame.charts[c].data[Rank(data, c, i)][2]) = data[i].value
        /\ \A i \in 1..Len(data) : Cardinality(ChartsOf(i)) = 1

\* C8 amended: every bucket is the (name, integer part of the current value)
\* pairs of its category in table order; an entry tagged Other(false) is in
\* no bucket and every other entry in exactly one.
C8_BucketsInOrder ==
    Painting =>
        /\ \A c \in 1..5 :
              /\ Len(frame.charts[c].data) = Cardinality(Members(data, c))
              /\ \A i \in Members(data, c) :
                    frame.charts[c].data[Rank(data, c, i)]
                        = <<data[i].s.name, IntegerPart(data[i].value)>>
        /\ \A i \in 1..Len(data) :
              Cardinality(ChartsOf(i)) = IF data[i].s.sensor = <<"Other", FALSE>> THEN 0 ELSE 1

\* Core0 (no max) at 45 and Core1 (max 85) at 70.5: the CPU chart shows
\* [(Core0, 45), (Core1, 70)] under the ceiling 85.
C8_Witness ==
    /\ Painting
    /\ data = << [s |-> [id |-> 1, name |-> "Core0", sensor |-> <<"Cpu">>, max |-> NaN],
                  value |-> F(45, 0)],
                 [s |-> [id |-> 2, name |-> "Core1", sensor |-> <<"Cpu">>, max |-> F(85, 0)],
                  value |-> F(70, 5)] >>
    /\ frame.charts[1] = [data |-> << <<"Core0", 45>>, <<"Core1", 70>> >>, max |-> 85]

(***************************************************************************)
(* C9                                                                      *)
(***************************************************************************)
\* C9: in the frame being painted every bar of every chart shows the value
\* that was committed last to its sensor when draw read the table (1.0 if
\* none was), a value the stream delivered; and the table itself holds no
\* half-stored value while the frame is painted.
C9_NoTornRead ==
    Painting =>
        /\ \A c \in 1..5 : \A i \in Members(data, c) :
              /\ Rank(data, c, i) <= Len(frame.charts[c].data)
              /\ frame.charts[c].data[Rank(data, c, i)][2]
                    = IntegerPart(snapCommitted[data[i].s.id])
        /\ \A i \in 1..Len(data) :
              /\ snapCommitted[data[i].s.id] \in {F(1, 0), F(45, 0), F(70, 5)}
              /\ data[i].value = snapCommitted[data[i].s.id]

\* A frame showing one committed update and one initial value, painted while
\* the poller waits with a newer value for the first sensor.
C9_Witness ==
    /\ Painting /\ Len(data) = 2
    /\ frame.charts[1].data = << <<"Core0", 70>>, <<"Core1", 1>> >>
    /\ pcPoller = "lock" /\ pEvt = [id |-> 1, value |-> F(45, 0)]

(***************************************************************************)
(* C10                                                                     *)
(***************************************************************************)
\* C10: main never holds the Mutex while a frame is being painted, so the
\* poller never waits for a paint.
C10_LockNotHeldWhilePainting ==
    /\ ~(Painting /\ lock = "main")
    /\ ~(Painting /\ pcPoller = "lock" /\ lock # "free")

(***************************************************************************)
(* C11                                                                     *)
(***************************************************************************)
\* C11: the Mutex is held only by main inside draw and by the poller inside
\* its update closure, never by the input or tick thread; main does not hold
\* it while blocked in a recv(), nor the poller while it waits for the next
\* sensor event; so while the poller waits, main can receive a queued event
\* and finds the Mutex free wherever it locks it, in draw included.
C11_NoLockAtBlockingPoint ==
    /\ lock \in {"free", "main", "poller"}
    /\ lock = "main" => pcMain = "draw_paint"
    /\ lock = "poller" => pcPoller \in {"scan", "store"}
    /\ pcMain \in {"new", "recv"} => lock # "main"
    /\ pcPoller \in {"start", "wait"} => lock # "poller"
    /\ (proc = "running" /\ pcPoller = "wait") =>
          /\ (pcMain = "recv" /\ chan # <<>>) => ENABLED Recv
          /\ pcMain \in {"size0", "size_cmp", "size_store", "draw"} => lock = "free"

\* Main blocked on an empty channel and the poller waiting for the stream,
\* after a redraw and a stored update: nobody holds the Mutex.
C11_Witness ==
    /\ pcMain = "recv" /\ chan = <<>> /\ pcPoller = "wait"
    /\ Len(paints) >= 2 /\ committed[1] # F(1, 0)
    /\ lock = "free"

(***************************************************************************)
(* C12                                                                     *)
(***************************************************************************)
\* The renderer is Running before App::new returns; when it is Terminating
\* the quit is the last event it received and the only quit it received, and
\* each event received before it, none after it, has its paint.
C12_TerminatingAfterQuit ==
    /\ pcMain = "new" => RendererState = "Running"
    /\ RendererState = "Terminating" =>
          /\ recvLog # <<>> /\ Last(recvLog) = Quit
          /\ \A k \in 1..(Len(recvLog) - 1) : recvLog[k] # Quit
          /\ Len(paints) = Len(recvLog)
          /\ \A k \in 1..Len(paints) : paints[k] # Quit

\* A step takes the renderer from Running to Terminating only by receiving
\* the quit; receiving anything else leaves it Running; a step from
\* Terminating stays there, receives nothing and paints, resizes and stores
\* no geometry; once the cursor is restored nothing is painted or resized.
C12_Absorbing ==
    /\ (RendererState = "Running" /\ RendererState' = "Terminating") =>
          recvLog' = Append(recvLog, Quit)
    /\ (recvLog' # recvLog /\ Last(recvLog') # Quit) => RendererState' = "Running"
    /\ RendererState = "Terminating" =>
          /\ RendererState' = "Terminating"
          /\ recvLog' = recvLog /\ paints' = paints
          /\ resizeCalls' = resizeCalls /\ size' = size /\ evt' = evt
    /\ cursorRestores = 1 =>
          (cursorRestores' = 1 /\ paints' = paints /\ resizeCalls' = resizeCalls)

\* C12: the renderer starts Running, becomes Terminating only by consuming
\* Input('q'), and Terminating is absorbing: nothing is consumed or painted
\* after the quit, and nothing painted or resized after the cursor restore.
C12_QuitIsAbsorbing == []C12_TerminatingAfterQuit /\ [][C12_Absorbing]_vars

\* Main has returned after Tick, Input(x) and the quit, a later Tick still
\* queued and never consumed.
C12_Witness ==
    /\ pcMain = "done" /\ cursorRestores = 1
    /\ recvLog = <<Tick, Input("x"), Quit>> /\ chan = <<Tick>>
    /\ paints = <<NoEvt, Tick, Input("x")>>

(***************************************************************************)
(* C13                                                                     *)
(***************************************************************************)
\* A Tick or an Input other than the quit.
IsRedrawEvent(e) == e = <<"Tick">> \/ (e[1] = "Input" /\ e # Quit)

\* C13 as stated: every paint is caused by a Tick or non-quit Input the
\* renderer consumed, so there are never more paints than events consumed.
C13_PaintsNeverExceedEvents ==
    /\ \A k \in 1..Len(paints) : IsRedrawEvent(paints[k])
    /\ Len(paints) <= Len(recvLog)

\* C13 amended: the first paint is the first draw, caused by no event; the
\* k-th paint after it is caused by the k-th event consumed, a Tick or a
\* non-quit Input; main is inside draw only for the first draw or for the
\* event it consumed last, whatever the poller stored; so there is never
\* more than one paint more than events consumed.
C13_RedrawsFollowEvents ==
    /\ Len(paints) <= Len(recvLog) + 1
    /\ paints # <<>> => paints[1] = NoEvt
    /\ \A k \in 2..Len(paints) : paints[k] = recvLog[k - 1] /\ IsRedrawEvent(paints[k])
    /\ pcMain \in {"draw", "draw_paint"} =>
          IF recvLog = <<>>
          THEN paints = <<>> /\ evt = NoEvt
          ELSE evt = Last(recvLog) /\ IsRedrawEvent(evt) /\ Len(paints) = Len(recvLog)

\* Both sensors of the table updated by the poller while main, having
\* painted the first frame and one for a Tick, waits for the next event.
C13_Witness ==
    /\ pcMain = "recv" /\ chan = <<>>
    /\ paints = <<NoEvt, Tick>> /\ recvLog = <<Tick>>
    /\ Len(data) = 2 /\ data[1].value # F(1, 0) /\ data[2].value # F(1, 0)

(***************************************************************************)
(* C14                                                                     *)
(***************************************************************************)
\* The descriptors of a table, in table order, and the slots whose value
\* differs between two tables of one length.
Descriptors(d) == [i \in 1..Len(d) |-> d[i].s]
ChangedSlots(d, e) == {i \in 1..Len(d) : d[i].value # e[i].value}

\* After discovery the table is one of the discovered lists, id by id.
C14_TableFixed ==
    pcPoller \in {"wait", "lock", "scan", "store"} =>
        /\ Len(data) \in {1, 2}
        /\ \A i, j \in 1..Len(data) : data[i].s.id = data[j].s.id => i = j
        /\ \E l \in {CoreSensors, FanSensors} : Descriptors(data) = l

\* After discovery no step changes the table's length, order or descriptors;
\* a step of the poller leaves the geometry alone and changes at most one
\* value, that of the entry with the id in hand; a step of main changes no
\* value; the geometry changes only in a step of main, at line 100 or 107.
C14_Frame ==
    /\ pcPoller # "start" =>
          (Len(data') = Len(data) /\ Descriptors(data') = Descriptors(data))
    /\ (pcPoller # "start" /\ pcPoller' # pcPoller) =>
          /\ size' = size
          /\ Cardinality(ChangedSlots(data, data')) <= 1
          /\ \A i \in ChangedSlots(data, data') : data[i].s.id = pEvt.id
    /\ pcMain' # pcMain => data' = data
    /\ size' # size => (pcMain \in {"size0", "size_store"} /\ pcMain' # pcMain)

\* C14: a poller update changes at most one value and nothing else of App;
\* every step of the renderer leaves the table alone and only the renderer
\* changes the geometry; the table's length and ids never change after
\* discovery.
C14_SingleWriter == []C14_TableFixed /\ [][C14_Frame]_vars

\* The renderer has stored a new geometry and the poller a new value in the
\* first of two slots, the second still untouched.
C14_Witness ==
    /\ size = Rect(100, 30) /\ Len(paints) >= 2
    /\ Len(data) = 2 /\ data[1].value = F(70, 5) /\ data[2].value = F(1, 0)
    /\ pcPoller = "wait"

(***************************************************************************)
(* C15                                                                     *)
(***************************************************************************)
\* The positions of a sequence of events holding an Input, and those holding
\* the quit.
InputsAt(q) == {k \in 1..Len(q) : q[k][1] = "Input"}
QuitsAt(q) == {k \in 1..Len(q) : q[k] = Quit}

\* At most one quit was ever sent, no Input was sent after it, and the
\* input thread has stopped exactly when it has sent the quit.
C15_NothingAfterQuit ==
    /\ Cardinality(QuitsAt(enq)) <= 1
    /\ \A k \in QuitsAt(enq) : \A j \in InputsAt(enq) : j <= k
    /\ pcInput = "done" <=> QuitsAt(enq) # {}
    /\ pcInput \in {"read", "done"}

\* A step that sends an Input is a step of the reading input thread: it
\* appends that one event to the channel behind everything sent before, ends
\* the thread exactly if the key is the quit, and neither ends the process
\* nor restores the cursor nor moves main.
C15_Forward ==
    InputsAt(enq') # InputsAt(enq) =>
        /\ pcInput = "read"
        /\ Len(enq') = Len(enq) + 1 /\ SubSeq(enq', 1, Len(enq)) = enq
        /\ Last(enq')[1] = "Input"
        /\ chan' = Append(chan, Last(enq'))
        /\ pcInput' = "done" <=> Last(enq') = Quit
        /\ proc' = proc /\ cursorRestores' = cursorRestores /\ pcMain' = pcMain

\* C15: the input thread forwards each key as Input(key) in the order read;
\* having forwarded the quit it stops, so at most one quit and no Input
\* after it is ever enqueued; it never ends the process or restores the
\* cursor itself.
C15_ListenerStopsAfterQuit == []C15_NothingAfterQuit /\ [][C15_Forward]_vars

\* Input(x) then the quit forwarded, a Tick sent after the quit, the input
\* thread stopped and the process still running with the quit not yet
\* received.
C15_Witness ==
    /\ enq = <<Input("x"), Quit, Tick>>
    /\ pcInput = "done" /\ proc = "running" /\ cursorRestores = 0
    /\ QuitsAt(recvLog) = {}

(***************************************************************************)
(* C16                                                                     *)
(***************************************************************************)
\* C16: once the poller thread has died before handing over App, main never
\* gets past App::new: it has issued no clear, hide_cursor, size store,
\* layout, paint, resize or cursor restore and consumed no event, no table
\* exists, and the one step main can take is the panic that ends the
\* process, which never exits normally.
C16_StartupFailureBeforeUI ==
    appChan = "closed" =>
        /\ pcPoller = "panicked" /\ pcMain = "new"
        /\ data = <<>> /\ size = Rect(0, 0) /\ lock = "free"
        /\ paints = <<>> /\ resizeCalls = <<>> /\ cursorRestores = 0 /\ recvLog = <<>>
        /\ frame.charts = <<>> /\ lastArea = Rect(0, 0)
        /\ proc \in {"running", "aborted"}
        /\ proc = "running" => (ENABLED MainNewFail /\ ~ENABLED MainNew /\ ~ENABLED Clear)

\* The process aborted by the startup failure, the events sent meanwhile
\* never consumed.
C16_Witness ==
    /\ appChan = "closed" /\ proc = "aborted"
    /\ Len(chan) = 4 /\ paints = <<>>

(***************************************************************************)
(* C17                                                                     *)
(***************************************************************************)
\* A fatal condition has occurred in some thread.
Failed == proc = "aborted" \/ pcInput = "panicked" \/ pcPoller = "panicked"

\* C17: after a failure in whichever thread, the process has ended where it
\* was: no step receives another event, paints, resizes, restores the
\* cursor, stores a geometry or updates the table.
C17_FailureEndsProcess ==
    [][ Failed =>
          /\ recvLog' = recvLog /\ paints' = paints /\ resizeCalls' = resizeCalls
          /\ cursorRestores' = cursorRestores
          /\ data' = data /\ size' = size /\ pcMain' = pcMain ]_vars

(***************************************************************************)
(* C18                                                                     *)
(***************************************************************************)
\* The positions at which a thread is about to call app.lock().
MainAtLock == pcMain \in {"size0", "size_cmp", "size_store", "draw"}
PollerAtLock == pcPoller = "lock"

\* C18: no thread is about to lock the Mutex while it holds it; whoever holds
\* it can take the step that releases it, waiting for nothing; a thread
\* about to lock finds the Mutex free or held by the other thread; so
\* whenever a thread is at the Mutex, it is free to take or its holder can
\* release it.
C18_NoMutexDeadlock ==
    /\ ~(lock = "main" /\ MainAtLock)
    /\ ~(lock = "poller" /\ PollerAtLock)
    /\ proc = "running" =>
          /\ lock = "main" => (pcMain = "draw_paint" /\ ENABLED DrawPaint)
          /\ lock = "poller" => (ENABLED PollerScan \/ ENABLED PollerStore)
          /\ MainAtLock => (lock = "free" \/ lock = "poller")
          /\ PollerAtLock => (lock = "free" \/ lock = "main")
          /\ (lock = "free" /\ PollerAtLock) => ENABLED PollerLock
          /\ (lock = "free" /\ pcMain = "size0") => ENABLED Size0
          /\ (lock = "free" /\ pcMain = "size_cmp") => ENABLED SizeCmp
          /\ (lock = "free" /\ pcMain = "size_store") => ENABLED SizeStore
          /\ (MainAtLock \/ PollerAtLock) =>
                \/ lock = "free"
                \/ ENABLED DrawPaint \/ ENABLED PollerScan \/ ENABLED PollerStore

\* Main, inside the resize check, about to lock for the geometry store
\* while the poller holds the Mutex in the middle of a store.
C18_Witness ==
    /\ pcMain = "size_store" /\ lock = "poller" /\ pcPoller = "store"
    /\ paints # <<>>

(***************************************************************************)
(* C19                                                                     *)
(***************************************************************************)
\* The table d with every value replaced by the one c holds for its id.
TableAt(d, c) == [i \in 1..Len(d) |-> [s |-> d[i].s, value |-> c[d[i].s.id]]]

\* C19: from the first filter_sensor call of a draw to its paint main holds
\* the Mutex and the table is the one committed when draw locked it, no
\* update applied since; every chart built so far, and at the paint all five
\* and the area of the layout, are those of that one table and the stored
\* geometry.
C19_OneTableState ==
    pcMain \in {"draw_filter", "draw_layout", "draw_paint"} =>
        /\ lock = "main"
        /\ data = TableAt(data, snapCommitted)
        /\ \A k \in 1..Len(frame.charts) :
              frame.charts[k] = Charts(TableAt(data, snapCommitted))[k]
        /\ pcMain = "draw_paint" => (Len(frame.charts) = 5 /\ frame.area = size)

\* A frame for a Tick showing the CPU at 70 and the fan at 45, both stored
\* earlier, painted while the poller waits at the Mutex with a newer value
\* for the fan.
C19_Witness ==
    /\ pcMain = "draw_paint" /\ evt = Tick
    /\ frame.charts[1].data = << <<"Core0", 70>> >>
    /\ frame.charts[4].data = << <<"Core1", 45>> >>
    /\ pcPoller = "lock" /\ pEvt = [id |-> 2, value |-> F(70, 5)]

====
